---- MODULE Spec2Model ----
(***************************************************************************)
(* Model of src/main.py: the monthly cloud cost job.  main() loads the     *)
(* config, computes the previous month's date range, then for every AWS    *)
(* account and every Azure subscription fetches the cost and, when a       *)
(* non-null cost came back, inserts one row into the provider's table.     *)
(*                                                                         *)
(* The cloud SDKs, the environment and the database are the environment of *)
(* the program: what they answer is drawn nondeterministically in each     *)
(* action.  Costs are integers (hundredths of a currency unit).            *)
(***************************************************************************)
EXTENDS Integers, Sequences, FiniteSets, TLC

VARIABLES
    cfgFile,     \* state of /config/config.yaml: "ok", "missing", "malformed", "unreadable"
    config,      \* what yaml.safe_load returns for a readable file: [aws, azure]
    today,       \* datetime.today(), <<year, month, day>>
    pc,          \* position of main(): "load","range","fetch","connect","execute","done","exited","crashed"
    prov,        \* provider of the loop main() is in: "aws" or "azure"
    i,           \* 1-based index of the descriptor being processed in that loop
    dates,       \* (first_of_previous_month, last_of_previous_month) or <<>> before the range step
    ranges,      \* the value get_previous_month_range returned, or <<>>
    pending,     \* arguments of the insert_into_db call in progress, or <<>>
    rows,        \* committed rows of both tables, in commit order
    calls,       \* insert_into_db invocations, in order
    queries,     \* get_cost_and_usage requests issued, in order
    results,     \* how each fetcher call ended, in order
    log,         \* trace of the steps main() took
    openConns,   \* database connections opened and not closed
    stderr,      \* number of lines printed to sys.stderr
    exitStatus   \* process exit status, -1 while running

vars == <<cfgFile, config, today, pc, prov, i, dates, ranges, pending, rows,
          calls, queries, results, log, openConns, stderr, exitStatus>>

\* ---------------------------------------------------------------- bounds
MaxAws == 2
MaxAzure == 1

\* ---------------------------------------------------------- input spaces
\* The value of aws_account['tags'] after yaml.safe_load is the YAML string
\* "true" ("str:true"), a YAML boolean ("bool:true", "bool:false"), or the
\* key is absent from the mapping ("absent").
\* The AWS accounts a config may list: one per value of the flag.
AwsDescriptors ==
    { [accountName |-> "prod", accountId |-> "111122223333", roleName |-> "CostReader",
       tags |-> "str:true", tagKey |-> "team", tagValue |-> "core"],
      [accountName |-> "dev", accountId |-> "444455556666", roleName |-> "CostReader",
       tags |-> "bool:true", tagKey |-> "team", tagValue |-> "core"],
      [accountName |-> "test", accountId |-> "777788889999", roleName |-> "CostReader",
       tags |-> "bool:false", tagKey |-> "", tagValue |-> ""],
      [accountName |-> "lab", accountId |-> "000011112222", roleName |-> "CostReader",
       tags |-> "absent", tagKey |-> "", tagValue |-> ""] }

AzureDescriptors ==
    { [accountName |-> "az-main", Subscription |-> "sub_main"],
      [accountName |-> "az-test", Subscription |-> "sub_test"] }

SeqsUpTo(S, n) == UNION { [1..k -> S] : k \in 0..n }

Configs == [aws : SeqsUpTo(AwsDescriptors, MaxAws), azure : SeqsUpTo(AzureDescriptors, MaxAzure)]

\* What the provider bills an account for the month, in hundredths; an
\* account may have cost nothing.
Bill(desc) ==
    CASE desc.accountName \in {"dev", "az-test"} -> 0
      [] desc.accountName = "az-main" -> 6789
      [] OTHER -> 12345

CfgFileStates == {"ok", "missing", "malformed", "unreadable"}

\* ------------------------------------------------- calendar arithmetic
\* datetime's proleptic Gregorian arithmetic, which `first_of_this_month -
\* timedelta(days=1)` goes through: date -> ordinal, minus one, ordinal -> date.
DaysInMonthTable == <<31, 28, 31, 30, 31, 30, 31, 31, 30, 31, 30, 31>>

DaysBeforeMonthTable == <<0, 31, 59, 90, 120, 151, 181, 212, 243, 273, 304, 334>>

IsLeap(year) == year % 4 = 0 /\ (year % 100 # 0 \/ year % 400 = 0)

DaysBeforeYear(year) ==
    LET y == year - 1 IN y * 365 + (y \div 4) - (y \div 100) + (y \div 400)

DaysBeforeMonth(year, month) ==
    DaysBeforeMonthTable[month] + (IF month > 2 /\ IsLeap(year) THEN 1 ELSE 0)

Ymd2Ord(d) == DaysBeforeYear(d[1]) + DaysBeforeMonth(d[1], d[2]) + d[3]

DI400Y == DaysBeforeYear(401)
DI100Y == DaysBeforeYear(101)
DI4Y == DaysBeforeYear(5)

Ord2Ymd(ord) ==
    LET n0   == ord - 1
        n400 == n0 \div DI400Y
        n1r  == n0 % DI400Y
        n100 == n1r \div DI100Y
        n2r  == n1r % DI100Y
        n4   == n2r \div DI4Y
        n3r  == n2r % DI4Y
        n1   == n3r \div 365
        n    == n3r % 365
        year == n400 * 400 + 1 + n100 * 100 + n4 * 4 + n1
        leapyear == n1 = 3 /\ (n4 # 24 \/ n100 = 3)
        leapadd(m) == IF m > 2 /\ leapyear THEN 1 ELSE 0
        month0 == (n + 50) \div 32
        prec0  == DaysBeforeMonthTable[month0] + leapadd(month0)
        month  == IF prec0 > n THEN month0 - 1 ELSE month0
        prec   == IF prec0 > n
                  THEN prec0 - (DaysInMonthTable[month]
                                + (IF month = 2 /\ leapyear THEN 1 ELSE 0))
                  ELSE prec0
    IN IF n1 = 4 \/ n100 = 4
       THEN <<year - 1, 12, 31>>
       ELSE <<year, month, n - prec + 1>>

\* date - timedelta(days=k)
MinusDays(d, k) == Ord2Ymd(Ymd2Ord(d) - k)

\* date.replace(day=k)
ReplaceDay(d, k) == <<d[1], d[2], k>>

\* ------------------------------------------------------------- strftime
DigitStr == <<"0", "1", "2", "3", "4", "5", "6", "7", "8", "9">>

Dig(n) == DigitStr[n + 1]

Pad2(n) == Dig((n \div 10) % 10) \o Dig(n % 10)

Pad4(n) == Dig((n \div 1000) % 10) \o Dig((n \div 100) % 10) \o Pad2(n % 100)

\* One directive or literal of a strftime format.
Directive(d, tok) ==
    CASE tok = "%Y" -> Pad4(d[1])
      [] tok = "%m" -> Pad2(d[2])
      [] tok = "%d" -> Pad2(d[3])
      [] tok = "%y" -> Pad2(d[1] % 100)
      [] OTHER -> tok

RECURSIVE Strftime(_, _)
Strftime(d, fmt) ==
    IF fmt = <<>> THEN "" ELSE Directive(d, Head(fmt)) \o Strftime(d, Tail(fmt))

AwsFormat == <<"%Y", "-", "%m", "-", "%d">>
AzureStartFormat == <<"%Y", "-", "%m", "-", "%d", "T00:00:00Z">>
AzureEndFormat == <<"%Y", "-", "%m", "-", "%d", "T23:59:59Z">>
SampleDateFormat == <<"%d", "/", "%m", "/", "%y">>

\* --------------------------------------------- get_previous_month_range
FirstOfThisMonth(t) == ReplaceDay(t, 1)

LastOfPreviousMonth(t) == MinusDays(FirstOfThisMonth(t), 1)

\* Variant: thirty days before the first of this month.
FirstOfPreviousMonthBy30Days(t) == MinusDays(FirstOfThisMonth(t), 30)

FirstOfPreviousMonth(t) == ReplaceDay(LastOfPreviousMonth(t), 1)

PreviousMonthDates(t) == <<FirstOfPreviousMonth(t), LastOfPreviousMonth(t)>>

PreviousMonthRange(t) ==
    << << Strftime(FirstOfPreviousMonth(t), AwsFormat),
          Strftime(LastOfPreviousMonth(t), AwsFormat) >>,
       << Strftime(FirstOfPreviousMonth(t), AzureStartFormat),
          Strftime(LastOfPreviousMonth(t), AzureEndFormat) >> >>

\* ------------------------------------------------------ fetch_aws_costs
NoFilter == [Key |-> "", Values |-> <<>>, MatchOptions |-> <<>>]

\* Line 63 compares the flag with the string "true".
TagsRequested(desc) == desc.tags = "str:true"

TagFilter(desc) ==
    IF TagsRequested(desc)
    THEN [Key |-> desc.tagKey, Values |-> <<desc.tagValue>>, MatchOptions |-> <<"EQUALS">>]
    ELSE NoFilter

\* What AWS answers in one call of fetch_aws_costs: the STS assume_role call,
\* the Cost Explorer call, and the amount and the number of ResultsByTime
\* entries of a successful Cost Explorer response.
AwsEnvs(desc) ==
    [sts : {"ok", "denied"}, ce : {"ok", "error"}, periods : {0, 1}, amount : {Bill(desc)}]

Value(v) == [kind |-> "value", v |-> v]
Null == [kind |-> "null", v |-> 0]
Raised == [kind |-> "raised", v |-> 0]

\* assume_role (line 56) and the subscript aws_account['tags'] (line 63) are
\* outside of any try block; so is the read of ResultsByTime[0] (lines 82, 93).
AwsQueryIssued(desc, env) == env.sts = "ok" /\ desc.tags # "absent"

AwsFetchResult(desc, env) ==
    IF env.sts # "ok" THEN Raised
    ELSE IF desc.tags = "absent" THEN Raised
    ELSE IF env.ce # "ok" THEN Null
    ELSE IF env.periods = 0 THEN Raised
    ELSE Value(env.amount)

AwsFetchStderr(desc, env) == IF AwsQueryIssued(desc, env) /\ env.ce # "ok" THEN 1 ELSE 0

\* ---------------------------------------------------- fetch_azure_costs
\* creds: whether AZURE_<SUBSCRIPTION>_CLIENT/_SECRET/_TENANT are set;
\* ClientSecretCredential rejects a missing one with ValueError (line 104,
\* before the try of line 113).  api: the answer of client.query.usage.
AzureEnvs(desc) ==
    [creds : {"set", "unset"}, api : {"ok", "error"}, nrows : {0, 1}, amount : {Bill(desc)}]

AzureFetchResult(desc, env) ==
    IF env.creds # "set" THEN Raised
    ELSE IF env.api # "ok" THEN Null
    ELSE IF env.nrows = 0 THEN Null
    ELSE Value(env.amount)

AzureFetchStderr(desc, env) == IF env.creds = "set" /\ env.api # "ok" THEN 1 ELSE 0

\* ------------------------------------------------------------- main()
\* Variant: the result is written whatever the fetcher returned.
ShouldWriteAlways(res) == TRUE

\* Variant: `if aws_cost:`, the truth value of the cost instead of `is not None`.
ShouldWriteTruthy(res) == res.kind = "value" /\ res.v # 0

\* `if aws_cost is not None` / `if azure_cost is not None`
ShouldWrite(res) == res.kind = "value"

AwsData(desc, cost) ==
    [accountName |-> desc.accountName, Subscription |-> "N/A", monthlyCost |-> cost]

AzureData(desc, cost) ==
    [accountName |-> desc.accountName, Subscription |-> desc.Subscription, monthlyCost |-> cost]

AwsTable == "aws_monthly_cost"
AzureTable == "azure_monthly_cost"

Descriptors(p) == IF p = "aws" THEN config.aws ELSE config.azure

\* Variant: the Azure loop is entered after the first AWS account instead of
\* after the last one.
AdvanceEarlyAzure(p, k) ==
    IF p = "aws" /\ k >= 1 /\ Len(config.azure) > 0
    THEN [pc |-> "fetch", prov |-> "azure", i |-> 1]
    ELSE IF k < Len(Descriptors(p)) THEN [pc |-> "fetch", prov |-> p, i |-> k + 1]
    ELSE [pc |-> "done", prov |-> p, i |-> k]

\* Where main() is after the descriptor (p, k) has been dealt with: the next
\* element of the same list, the first Azure subscription, or the end.
Advance(p, k) ==
    IF k < Len(Descriptors(p)) THEN [pc |-> "fetch", prov |-> p, i |-> k + 1]
    ELSE IF p = "aws" /\ Len(config.azure) > 0 THEN [pc |-> "fetch", prov |-> "azure", i |-> 1]
    ELSE [pc |-> "done", prov |-> p, i |-> k]

\* Entry of the first loop (line 148).
FirstIteration == Advance("aws", 0)

Event(e, p, k) == [ev |-> e, prov |-> p, idx |-> k]

\* An exception that nothing catches ends the interpreter with status 1.
UncaughtExit == 1

\* exit(1) in load_config
ConfigErrorExit == 1

\* main() returns
NormalExit == 0

StatusAt(where) == IF where = "done" THEN NormalExit ELSE -1

\* ------------------------------------------------------- insert_into_db
SampleDate(t) == Strftime(t, SampleDateFormat)

Row(data, table, t, key) ==
    [table |-> table, accountName |-> data.accountName, Subscription |-> data.Subscription,
     monthlyCost |-> data.monthlyCost, SampleDate |-> SampleDate(t), of |-> key]

\* Variant: the except clause names an exception class the error is not of.
InsertErrorPropagates == FALSE

\* The except clause of line 141 catches every error of the try block and
\* the function returns normally.
InsertErrorIsCaught == TRUE

\* ---------------------------------------------------------------- state
\* Run date of the full run; the date specification below draws `today`
\* from every day of several years instead.
RunDates == { <<2024, 3, 15>> }

NoConfig == [aws |-> <<>>, azure |-> <<>>]

InitRest ==
    /\ pc = "load"
    /\ prov = "aws"
    /\ i = 0
    /\ dates = <<>>
    /\ ranges = <<>>
    /\ pending = <<>>
    /\ rows = <<>>
    /\ calls = <<>>
    /\ queries = <<>>
    /\ results = <<>>
    /\ log = <<>>
    /\ openConns = 0
    /\ stderr = 0
    /\ exitStatus = -1

Init ==
    /\ cfgFile \in CfgFileStates
    /\ config \in (IF cfgFile = "ok" THEN Configs ELSE {NoConfig})
    /\ today \in RunDates
    /\ InitRest

\* load_config, the file parses: main() goes on to line 146.
LoadConfigOk ==
    /\ pc = "load"
    /\ cfgFile = "ok"
    /\ pc' = "range"
    /\ log' = Append(log, Event("load", "", 0))
    /\ UNCHANGED <<cfgFile, config, today, prov, i, dates, ranges, pending, rows, calls,
                   queries, results, openConns, stderr, exitStatus>>

\* load_config, FileNotFoundError / YAMLError / any other error: exit(1).
LoadConfigFail ==
    /\ pc = "load"
    /\ cfgFile # "ok"
    /\ pc' = "exited"
    /\ exitStatus' = ConfigErrorExit
    /\ log' = Append(log, Event("load", "", 0))
    /\ UNCHANGED <<cfgFile, config, today, prov, i, dates, ranges, pending, rows, calls,
                   queries, results, openConns, stderr>>

\* Line 146, then the entry of the AWS loop (and of the Azure loop when the
\* AWS list is empty, and the return of main() when both are).
GetPreviousMonthRange ==
    /\ pc = "range"
    /\ dates' = PreviousMonthDates(today)
    /\ ranges' = PreviousMonthRange(today)
    /\ pc' = FirstIteration.pc
    /\ prov' = FirstIteration.prov
    /\ i' = FirstIteration.i
    /\ exitStatus' = StatusAt(FirstIteration.pc)
    /\ log' = Append(log, Event("range", "", 0))
    /\ UNCHANGED <<cfgFile, config, today, pending, rows, calls, queries, results,
                   openConns, stderr>>

\* The part of one loop iteration up to the call of insert_into_db: the fetch,
\* the test of its result, and either the construction of the row data or the
\* move to the next descriptor.  An exception of the fetcher ends main().
AfterFetch(res, data, table) ==
    /\ results' = Append(results, [prov |-> prov, idx |-> i, kind |-> res.kind, v |-> res.v])
    /\ IF res.kind = "raised"
       THEN /\ pc' = "crashed"
            /\ exitStatus' = UncaughtExit
            /\ log' = Append(log, Event("fetch", prov, i))
            /\ UNCHANGED <<prov, i, pending, calls>>
       ELSE IF ShouldWrite(res)
       THEN /\ pc' = "connect"
            /\ pending' = [data |-> data, table |-> table]
            /\ calls' = Append(calls, [data |-> data, table |-> table, of |-> <<prov, i>>])
            /\ log' = log \o <<Event("fetch", prov, i), Event("write", prov, i)>>
            /\ UNCHANGED <<prov, i, exitStatus>>
       ELSE /\ pc' = Advance(prov, i).pc
            /\ prov' = Advance(prov, i).prov
            /\ i' = Advance(prov, i).i
            /\ exitStatus' = StatusAt(Advance(prov, i).pc)
            /\ log' = Append(log, Event("fetch", prov, i))
            /\ UNCHANGED <<pending, calls>>

FetchAws ==
    /\ pc = "fetch"
    /\ prov = "aws"
    /\ \E env \in AwsEnvs(config.aws[i]) :
         LET desc == config.aws[i]
             res  == AwsFetchResult(desc, env)
         IN /\ queries' = IF AwsQueryIssued(desc, env)
                          THEN Append(queries, [idx |-> i, Start |-> ranges[1][1],
                                                End |-> ranges[1][2], Filter |-> TagFilter(desc)])
                          ELSE queries
            /\ stderr' = stderr + AwsFetchStderr(desc, env)
            /\ AfterFetch(res, AwsData(desc, res.v), AwsTable)
    /\ UNCHANGED <<cfgFile, config, today, dates, ranges, rows, openConns>>

FetchAzure ==
    /\ pc = "fetch"
    /\ prov = "azure"
    /\ \E env \in AzureEnvs(config.azure[i]) :
         LET desc == config.azure[i]
             res  == AzureFetchResult(desc, env)
         IN /\ stderr' = stderr + AzureFetchStderr(desc, env)
            /\ AfterFetch(res, AzureData(desc, res.v), AzureTable)
    /\ UNCHANGED <<cfgFile, config, today, dates, ranges, rows, queries, openConns>>

\* How insert_into_db hands control back to the loop.
ReturnFromInsert(ev) ==
    /\ pc' = Advance(prov, i).pc
    /\ prov' = Advance(prov, i).prov
    /\ i' = Advance(prov, i).i
    /\ exitStatus' = StatusAt(Advance(prov, i).pc)
    /\ pending' = <<>>
    /\ log' = Append(log, Event(ev, prov, i))

\* How insert_into_db ends after an error in its try block.
InsertError ==
    IF InsertErrorIsCaught
    THEN /\ stderr' = stderr + 1
         /\ ReturnFromInsert("write_failed")
    ELSE /\ pc' = "crashed"
         /\ exitStatus' = UncaughtExit
         /\ UNCHANGED <<prov, i, pending, log, stderr>>

\* insert_into_db, line 134: psycopg2.connect.
DbConnect ==
    /\ pc = "connect"
    /\ \E ok \in BOOLEAN :
         IF ok
         THEN /\ openConns' = openConns + 1
              /\ pc' = "execute"
              /\ UNCHANGED <<prov, i, pending, log, stderr, exitStatus>>
         ELSE /\ InsertError
              /\ UNCHANGED openConns
    /\ UNCHANGED <<cfgFile, config, today, dates, ranges, rows, calls, queries, results>>

\* insert_into_db, lines 135-142: execute, commit, close the cursor and the
\* connection.  conn.close() is reached only when execute and commit succeed;
\* after an error the connection object is left to the garbage collector,
\* which may or may not have reclaimed it (`reclaimed`) when the call returns.
DbExecute ==
    /\ pc = "execute"
    /\ \E outcome \in {"ok", "execute_error", "commit_error"}, reclaimed \in BOOLEAN :
         IF outcome = "ok"
         THEN /\ reclaimed
              /\ rows' = Append(rows, Row(pending.data, pending.table, today, <<prov, i>>))
              /\ openConns' = openConns - 1
              /\ stderr' = stderr
              /\ ReturnFromInsert("written")
         ELSE /\ rows' = rows
              /\ openConns' = IF reclaimed THEN openConns - 1 ELSE openConns
              /\ InsertError
    /\ UNCHANGED <<cfgFile, config, today, dates, ranges, calls, queries, results>>

Next ==
    \/ LoadConfigOk
    \/ LoadConfigFail
    \/ GetPreviousMonthRange
    \/ FetchAws
    \/ FetchAzure
    \/ DbConnect
    \/ DbExecute

Spec == Init /\ [][Next]_vars

\* --------------------------------------- the date range over every day
Years == {1999, 2000, 2023, 2024, 2025, 2100}

IsDate(y, m, d) == d <= DaysInMonthTable[m] + (IF m = 2 /\ IsLeap(y) THEN 1 ELSE 0)

AllDates == { t \in Years \X (1..12) \X (1..31) : IsDate(t[1], t[2], t[3]) }

OneOfEach ==
    [aws |-> << [accountName |-> "test", accountId |-> "777788889999", roleName |-> "CostReader",
                 tags |-> "bool:false", tagKey |-> "", tagValue |-> ""] >>,
     azure |-> << [accountName |-> "az-main", Subscription |-> "sub_main"] >>]

InitDates ==
    /\ cfgFile \in CfgFileStates
    /\ config = (IF cfgFile = "ok" THEN OneOfEach ELSE NoConfig)
    /\ today \in AllDates
    /\ InitRest

NextDates ==
    \/ LoadConfigOk
    \/ LoadConfigFail
    \/ GetPreviousMonthRange

SpecDates == InitDates /\ [][NextDates]_vars

\* ============================================================ properties
Terminated == pc \in {"done", "exited", "crashed"}

\* Position of a descriptor in the order of the config: the AWS accounts,
\* then the Azure subscriptions.
Ord(p, k) == IF p = "aws" THEN k ELSE Len(config.aws) + k

Total == Len(config.aws) + Len(config.azure)

Keys == { <<"aws", k>> : k \in 1..Len(config.aws) } \cup { <<"azure", k>> : k \in 1..Len(config.azure) }

DescOf(key) == IF key[1] = "aws" THEN config.aws[key[2]] ELSE config.azure[key[2]]

ResultsOf(key) == { n \in DOMAIN results : results[n].prov = key[1] /\ results[n].idx = key[2] }

CallsOf(key) == { n \in DOMAIN calls : calls[n].of = key }

RowsOf(key) == { n \in DOMAIN rows : rows[n].of = key }

EventsOf(e, key) == { n \in DOMAIN log : log[n] = Event(e, key[1], key[2]) }

Fetches == SelectSeq(log, LAMBDA e : e.ev = "fetch")

\* C1: a failure while processing one descriptor never prevents the following
\* descriptors from being processed: when the run of a loaded config has
\* ended, every descriptor of the config has been fetched and no exception
\* has ended the run.
C1_EveryDescriptorFetched ==
    (Terminated /\ cfgFile = "ok") =>
        /\ pc # "crashed"
        /\ \A key \in Keys : ResultsOf(key) # {}

\* C2: the process exits with a non-zero status only when the config file
\* cannot be loaded; with a loaded config the exit status is zero.
C2_NonZeroOnlyOnConfigFailure ==
    (exitStatus # -1 /\ cfgFile = "ok") => exitStatus = 0

\* C3: each fetcher signals failure as a value: every call of fetch_aws_costs
\* and of fetch_azure_costs returns a number or null, none ends in an
\* exception.
C3_FetchersReturnValues ==
    \A n \in DOMAIN results : results[n].kind \in {"value", "null"}

\* C4: when a fetcher returns null for a descriptor, insert_into_db is not
\* invoked for it, no row is inserted for it, and the run goes on with the
\* next descriptor of the config (or ends normally after the last one).
C4_NullIsNotWritten ==
    \A n \in DOMAIN results :
        results[n].kind = "null" =>
            LET key == <<results[n].prov, results[n].idx>>
                o   == Ord(key[1], key[2])
            IN /\ CallsOf(key) = {}
               /\ RowsOf(key) = {}
               /\ EventsOf("write", key) = {}
               /\ IF n < Len(results)
                  THEN Ord(results[n + 1].prov, results[n + 1].idx) = o + 1
                  ELSE IF o = Total
                  THEN pc = "done" /\ exitStatus = 0
                  ELSE pc = "fetch" /\ Ord(prov, i) = o + 1

C4_Witness ==
    /\ pc = "done"
    /\ Len(results) = 3
    /\ results[1].kind = "null" /\ results[1].prov = "aws"
    /\ results[2].kind = "value"
    /\ results[3].kind = "null" /\ results[3].prov = "azure"
    /\ Len(rows) = 1 /\ rows[1].of = <<"aws", 2>>

ExpectedTable(key) == IF key[1] = "aws" THEN "aws_monthly_cost" ELSE "azure_monthly_cost"

ExpectedLabel(key) == IF key[1] = "aws" THEN "N/A" ELSE DescOf(key).Subscription

IsPrefix(a, b) == Len(a) <= Len(b) /\ SubSeq(b, 1, Len(a)) = a

\* A step in which the insert_into_db call in progress fails: connect does
\* not yield a connection, or execute/commit does not commit the row.
DbFailureStep ==
    \/ pc = "connect" /\ pc' # "execute"
    \/ pc = "execute" /\ rows' = rows

\* C6: a connection or insert error of one insert_into_db call is logged and
\* does not abort the run: the run goes on with the next descriptor (or ends
\* with status 0 after the last one); and no step removes or changes a row
\* committed earlier.
C6_DbErrorIsIsolated ==
    [][ /\ IsPrefix(rows, rows')
        /\ DbFailureStep =>
             LET o == Ord(prov, i)
             IN /\ stderr' = stderr + 1
                /\ pc' # "crashed"
                /\ IF o = Total
                   THEN pc' = "done" /\ exitStatus' = 0
                   ELSE pc' = "fetch" /\ Ord(prov', i') = o + 1 /\ exitStatus' = -1 ]_vars

\* A failed write between two committed ones.
C6_Witness ==
    /\ Len(rows) = 2
    /\ rows[1].of = <<"aws", 1>>
    /\ EventsOf("write_failed", <<"aws", 2>>) # {}
    /\ rows[2].of = <<"azure", 1>>

\* C7: every connection insert_into_db opens is released before it returns:
\* outside of the execute step no connection is open, and never more than one.
C7_ConnectionsScoped ==
    /\ pc # "execute" => openConns = 0
    /\ openConns <= 1

\* The flag of the descriptor as the config states it.
FlagIsTrue(desc) == desc.tags \in {"str:true", "bool:true"}

\* C8: the cost query of a descriptor whose tag-filter flag is true carries
\* exactly one equality filter on the configured key and value; that of a
\* descriptor whose flag is false or absent carries no filter.
C8_FilterFollowsFlag ==
    \A n \in DOMAIN queries :
        LET desc == config.aws[queries[n].idx]
        IN IF FlagIsTrue(desc)
           THEN queries[n].Filter = [Key |-> desc.tagKey, Values |-> <<desc.tagValue>>,
                                     MatchOptions |-> <<"EQUALS">>]
           ELSE queries[n].Filter = NoFilter

LeapYear(y) == (y % 4 = 0 /\ y % 100 # 0) \/ y % 400 = 0

MonthLength(y, m) ==
    CASE m \in {1, 3, 5, 7, 8, 10, 12} -> 31
      [] m \in {4, 6, 9, 11} -> 30
      [] OTHER -> IF LeapYear(y) THEN 29 ELSE 28

PrecedingMonth(t) == IF t[2] = 1 THEN <<t[1] - 1, 12>> ELSE <<t[1], t[2] - 1>>

Iso(y, m, d) == Pad4(y) \o "-" \o Pad2(m) \o "-" \o Pad2(d)

\* C9: get_previous_month_range returns the first and the last day of the
\* month preceding today's month, as YYYY-MM-DD for AWS and with T00:00:00Z
\* and T23:59:59Z for Azure; today = 2024-03-15 gives 2024-02-01, 2024-02-29.
C9_PreviousMonthRange ==
    ranges # <<>> =>
        LET pm    == PrecedingMonth(today)
            first == Iso(pm[1], pm[2], 1)
            last  == Iso(pm[1], pm[2], MonthLength(pm[1], pm[2]))
        IN /\ dates = << <<pm[1], pm[2], 1>>, <<pm[1], pm[2], MonthLength(pm[1], pm[2])>> >>
           /\ ranges = << <<first, last>>, <<first \o "T00:00:00Z", last \o "T23:59:59Z">> >>
           /\ today = <<2024, 3, 15>> =>
                ranges = << <<"2024-02-01", "2024-02-29">>,
                            <<"2024-02-01T00:00:00Z", "2024-02-29T23:59:59Z">> >>
           /\ today = <<2025, 1, 1>> =>
                ranges = << <<"2024-12-01", "2024-12-31">>,
                            <<"2024-12-01T00:00:00Z", "2024-12-31T23:59:59Z">> >>

C9_Witness ==
    /\ today = <<2024, 3, 15>>
    /\ ranges # <<>>
    /\ ranges[1] = <<"2024-02-01", "2024-02-29">>

====
